---- MODULE Spec2Model ----
(***************************************************************************)
(* Model of the LSST alert worker (src/src/alert/lsst.rs): the schema      *)
(* cache and registry client, the packet decoder, the enrichment step and  *)
(* the three-collection persistence protocol of process_alert, run by      *)
(* several workers against one shared document store.                      *)
(***************************************************************************)
EXTENDS Integers, Sequences, FiniteSets, TLC

(***************************************************************************)
(* Bounds of the model.                                                    *)
(***************************************************************************)
\* total number of process_alert calls started, over all workers
MaxCalls == 2
\* number of workers sharing the store
NumWorkers == 2

Workers == 1..NumWorkers

(***************************************************************************)
(* Option<T>: None is the empty tuple, Some(x) the one-element tuple.      *)
(***************************************************************************)
None == <<>>
Some(x) == <<x>>
IsSome(o) == o # <<>>
Unwrap(o) == o[1]

RECURSIVE SeqToSet(_)
SeqToSet(s) == IF s = <<>> THEN {} ELSE {Head(s)} \cup SeqToSet(Tail(s))

\* Option::unwrap_or
UnwrapOr(o, default) == IF IsSome(o) THEN Unwrap(o) ELSE default

(***************************************************************************)
(* Program constants.                                                      *)
(***************************************************************************)
_MAGIC_BYTE == 0
DuplicateKeyCode == 11000
ScienceFluxPlaceholder == 1000
AlertPacketSubject == "alert-packet"

(***************************************************************************)
(* The schema registry: the subjects it lists and the versions published   *)
(* under the alert-packet subject.  Published versions are immutable.      *)
(***************************************************************************)
RegistrySubjects == {"alert-packet"}
RegistryVersions == {1}

Endpoints == {"subjects", "versions", "schema"}
\* what one registry request can produce: a conforming answer, a transport
\* failure, a body that is not the expected JSON; the subjects endpoint can
\* also answer with a list that lacks the alert subject; the schema endpoint
\* can also answer without a string under "schema", or with text that is
\* not a schema
Answers(e) == IF e = "schema" THEN {"ok", "conn", "parse", "nokey", "badschema"}
              ELSE IF e = "subjects" THEN {"ok", "conn", "parse", "nosubject"}
              ELSE {"ok", "conn", "parse"}
\* the answers the registry gives during one resolution; at most one request
\* of a resolution can fail since the first failure ends it
RegistryAnswers ==
    {o \in [Endpoints -> {"ok", "conn", "parse", "nokey", "badschema", "nosubject"}] :
        /\ \A e \in Endpoints : o[e] \in Answers(e)
        /\ Cardinality({e \in Endpoints : o[e] \notin {"ok", "nosubject"}}) <= 1}
AllOk == [e \in Endpoints |-> "ok"]

(***************************************************************************)
(* Schema cache and registry client.                                       *)
(***************************************************************************)
\* (mutant) the key has no separator between subject and version
CacheKeyNoSeparator(subject, version) == subject \o ToString(version)

\* (mutant) the key leaves the version out
CacheKeyNoVersion(subject, version) == subject \o ":"

\* format!("{}:{}", subject, version)
CacheKey(subject, version) == subject \o ":" \o ToString(version)

\* get_subjects
GetSubjects(o) ==
    IF o["subjects"] = "conn" THEN [res |-> "ConnectionError", reqs |-> <<"subjects">>]
    ELSE IF o["subjects"] = "parse" THEN [res |-> "ParsingError", reqs |-> <<"subjects">>]
    ELSE [res |-> "Ok", reqs |-> <<"subjects">>,
          subjects |-> IF o["subjects"] = "nosubject" THEN {} ELSE RegistrySubjects]

\* (mutant) the subject is not checked against the subject list
GetVersionsNoSubjectCheck(subject, o) ==
    LET s == GetSubjects(o) IN
    IF s.res # "Ok" THEN s
    ELSE IF o["versions"] = "conn"
         THEN [res |-> "ConnectionError", reqs |-> Append(s.reqs, "versions")]
    ELSE IF o["versions"] = "parse"
         THEN [res |-> "ParsingError", reqs |-> Append(s.reqs, "versions")]
    ELSE [res |-> "Ok", reqs |-> Append(s.reqs, "versions")]

\* get_versions: the subject is checked against the subject list first
GetVersions(subject, o) ==
    LET s == GetSubjects(o) IN
    IF s.res # "Ok" THEN s
    ELSE IF subject \notin s.subjects
         THEN [res |-> "InvalidSubject", reqs |-> s.reqs]
    ELSE IF o["versions"] = "conn"
         THEN [res |-> "ConnectionError", reqs |-> Append(s.reqs, "versions")]
    ELSE IF o["versions"] = "parse"
         THEN [res |-> "ParsingError", reqs |-> Append(s.reqs, "versions")]
    ELSE [res |-> "Ok", reqs |-> Append(s.reqs, "versions")]

\* (mutant) the version is not checked against the version list
GetSchemaByIdNoVersionCheck(subject, version, o) ==
    LET v == GetVersions(subject, o) IN
    IF v.res # "Ok" THEN v
    ELSE LET reqs == Append(v.reqs, "schema") IN
         IF o["schema"] = "conn" THEN [res |-> "ConnectionError", reqs |-> reqs]
         ELSE IF o["schema"] \in {"parse", "nokey"} THEN [res |-> "ParsingError", reqs |-> reqs]
         ELSE IF o["schema"] = "badschema" THEN [res |-> "InvalidSchema", reqs |-> reqs]
         ELSE [res |-> "Ok", reqs |-> reqs]

\* _get_schema_by_id
GetSchemaById(subject, version, o) ==
    LET v == GetVersions(subject, o) IN
    IF v.res # "Ok" THEN v
    ELSE IF version \notin RegistryVersions
         THEN [res |-> "InvalidVersion", reqs |-> v.reqs]
    ELSE LET reqs == Append(v.reqs, "schema") IN
         IF o["schema"] = "conn" THEN [res |-> "ConnectionError", reqs |-> reqs]
         ELSE IF o["schema"] \in {"parse", "nokey"} THEN [res |-> "ParsingError", reqs |-> reqs]
         ELSE IF o["schema"] = "badschema" THEN [res |-> "InvalidSchema", reqs |-> reqs]
         ELSE [res |-> "Ok", reqs |-> reqs]

\* the parsed schema of a published version
SchemaOf(subject, version) == <<subject, version>>

\* (mutant) inserting drops what the cache held
CacheInsertEvicting(c, key, schema) == [k \in {key} |-> schema]

\* HashMap::insert
CacheInsert(c, key, schema) ==
    [k \in DOMAIN c \cup {key} |-> IF k = key THEN schema ELSE c[k]]

\* HashMap::get
CacheGet(c, key) == IF key \in DOMAIN c THEN Some(c[key]) ELSE None

\* get_schema after a cache miss, r being the result of _get_schema_by_id
GetSchemaMiss(c, key, schema, r) ==
    IF r.res # "Ok"
    THEN [res |-> r.res, reqs |-> r.reqs, cache |-> c, schema |-> None]
    ELSE [res |-> "Ok", reqs |-> r.reqs, cache |-> CacheInsert(c, key, schema),
          schema |-> CacheGet(CacheInsert(c, key, schema), key)]

\* (mutant) the cache is not consulted: every resolution fetches
GetSchemaNoHit(c, subject, version, o) ==
    GetSchemaMiss(c, CacheKey(subject, version), SchemaOf(subject, version),
                  GetSchemaById(subject, version, o))

\* get_schema, on the cache c of one worker
GetSchema(c, subject, version, o) ==
    IF CacheKey(subject, version) \in DOMAIN c
    THEN [res |-> "Ok", reqs |-> <<>>, cache |-> c,
          schema |-> CacheGet(c, CacheKey(subject, version))]
    ELSE GetSchemaMiss(c, CacheKey(subject, version), SchemaOf(subject, version),
                       GetSchemaById(subject, version, o))

(***************************************************************************)
(* Packets.  A packet is a byte buffer: the header bytes read by the       *)
(* decoder, and the payload, which either is the binary encoding of a      *)
(* value tree under the packet's schema (Some(value)) or is not (None).    *)
(* Value trees carry the wire names.                                       *)
(***************************************************************************)
\* a diaSource of the wire schema
WireSource(id, obj, ra, dec, flux, err) ==
    [diaSourceId |-> id, diaObjectId |-> obj, ra |-> ra, dec |-> dec,
     psfFlux |-> flux, psfFluxErr |-> err]

\* a diaForcedSource of the wire schema
WireForced(id, obj, flux, err) ==
    [diaForcedSourceId |-> id, diaObjectId |-> obj,
     psfFlux |-> flux, psfFluxErr |-> err]

WireAlert(id, src, prv, fps, cs, ct, cd) ==
    [alertId |-> id, diaSource |-> src, prvDiaSources |-> prv,
     prvDiaForcedSources |-> fps,
     cutoutScience |-> cs, cutoutTemplate |-> ct, cutoutDifference |-> cd]

Header(version) == <<_MAGIC_BYTE, 0, 0, 0, version>>
Packet(hdr, payload) == [hdr |-> hdr, payload |-> payload]

\* previous detections and forced sources that the packets of the model carry
P101 == WireSource(101, Some(10), 10, -5, Some(5), Some(1))
\* the detection 101 again, measured differently
P101b == WireSource(101, Some(10), 10, -5, Some(-2000), Some(1))
\* a previous detection without a PSF flux
P103 == WireSource(103, Some(10), 10, -5, None, Some(1))
\* the current detections of alerts 1 and 2
S1 == WireSource(1, Some(10), 10, -5, Some(5), Some(1))
S2 == WireSource(2, Some(10), 190, 20, Some(7), Some(1))
\* the current detection of alert 2, measured differently
S2b == WireSource(2, Some(10), 190, 20, Some(-2000), Some(1))
S3 == WireSource(3, Some(20), 10, -5, Some(5), Some(1))
F201 == WireForced(201, 10, Some(5), Some(1))
F202 == WireForced(202, 10, Some(-2000), Some(1))
\* the forced source 201 again, measured differently
F201b == WireForced(201, 10, Some(7), Some(1))

Cut == Some(<<7>>)

\* alert 1 of object 10, with one previous detection and one forced source
A1 == Packet(Header(1), Some(WireAlert(1, S1, Some(<<P101>>), Some(<<F201>>), Cut, Cut, Cut)))
\* alert 2 of object 10: its history repeats alert 1's and adds to it
A2 == Packet(Header(1), Some(WireAlert(2, S2, Some(<<P101, S1>>), Some(<<F201, F202>>), Cut, Cut, Cut)))
\* alert 2 of object 10 again, carrying re-measured history
A2b == Packet(Header(1), Some(WireAlert(2, S2b, Some(<<P101b>>), Some(<<F201b>>), Cut, Cut, Cut)))
\* alert 3 of object 20, without history
A3 == Packet(Header(1), Some(WireAlert(3, S3, None, None, Cut, Cut, Cut)))
\* an alert whose own history lists one detection twice
ARep == Packet(Header(1), Some(WireAlert(1, S1, Some(<<P101, P101>>), Some(<<F201, F201>>), Cut, Cut, Cut)))
\* a detection associated with no object
ANoObj == Packet(Header(1), Some(WireAlert(3, WireSource(3, None, 10, -5, Some(5), Some(1)),
                                           None, None, Cut, Cut, Cut)))
\* a current detection without a PSF flux error
ANoErr == Packet(Header(1), Some(WireAlert(3, WireSource(3, Some(20), 10, -5, Some(5), None),
                                           None, None, Cut, Cut, Cut)))
\* a previous detection without a PSF flux
ANoPrvFlux == Packet(Header(1), Some(WireAlert(3, S3, Some(<<P103>>), None, Cut, Cut, Cut)))
\* an alert without its template cutout
ANoCutout == Packet(Header(1), Some(WireAlert(3, S3, None, None, Cut, None, Cut)))
\* a first byte that is not the magic byte
BadMagic == Packet(<<1, 0, 0, 0, 1>>, A1.payload)
\* a schema id the registry has not published
UnknownSchema == Packet(Header(2), A1.payload)
\* a payload that is not an encoding under the schema
Garbage == Packet(Header(1), None)
\* a buffer shorter than the header, whose first byte is not the magic byte
Short == Packet(<<1, 0, 0>>, None)
\* the empty buffer
Empty == Packet(<<>>, None)

Packets == {A1, A2, A2b, A3, ARep, ANoObj, ANoErr, ANoPrvFlux, ANoCutout,
            BadMagic, UnknownSchema, Garbage, Short, Empty}

(***************************************************************************)
(* Packet decoder.                                                         *)
(***************************************************************************)
\* u32::from_be_bytes([b1, b2, b3, b4])
\* (mutant) the four bytes are read least significant first
U32FromLeBytes(b1, b2, b3, b4) == b4 * 16777216 + b3 * 65536 + b2 * 256 + b1

U32FromBeBytes(b1, b2, b3, b4) == b1 * 16777216 + b2 * 65536 + b3 * 256 + b4

\* serde renames, DiaSource: wire name -> field
SourceFromValue(v) ==
    [candid |-> v.diaSourceId, objectId |-> v.diaObjectId, ra |-> v.ra, dec |-> v.dec,
     psfFlux |-> v.psfFlux, psfFluxErr |-> v.psfFluxErr,
     magpsf |-> None, sigmapsf |-> None]

\* serde renames, DiaForcedSource
ForcedFromValue(v) ==
    [diaForcedSourceId |-> v.diaForcedSourceId, objectId |-> v.diaObjectId,
     psfFlux |-> v.psfFlux, psfFluxErr |-> v.psfFluxErr,
     magpsf |-> None, sigmapsf |-> None]

\* from_value::<LsstAlert>: the typed envelope of a value tree
FromValue(v) ==
    [candid |-> v.alertId,
     candidate |-> SourceFromValue(v.diaSource),
     prv_candidates |-> IF IsSome(v.prvDiaSources)
                        THEN Some([i \in 1..Len(Unwrap(v.prvDiaSources)) |->
                                 SourceFromValue(Unwrap(v.prvDiaSources)[i])])
                        ELSE None,
     fp_hists |-> IF IsSome(v.prvDiaForcedSources)
                  THEN Some([i \in 1..Len(Unwrap(v.prvDiaForcedSources)) |->
                           ForcedFromValue(Unwrap(v.prvDiaForcedSources)[i])])
                  ELSE None,
     cutoutScience |-> v.cutoutScience,
     cutoutTemplate |-> v.cutoutTemplate,
     cutoutDifference |-> v.cutoutDifference]

\* alert_from_avro_bytes on the cache c of one worker; o: the registry's answers;
\* asked: the arguments of its get_schema call, if it makes one
AlertFromAvroBytes(c, bytes, o) ==
    IF Len(bytes.hdr) < 5
    THEN \* read_exact(..).unwrap() on a short buffer
         [res |-> "Panic", reqs |-> <<>>, cache |-> c, alert |-> None, asked |-> None]
    ELSE IF bytes.hdr[1] # _MAGIC_BYTE
    THEN [res |-> "MagicBytesError", reqs |-> <<>>, cache |-> c, alert |-> None,
          asked |-> None]
    ELSE LET schema_id == U32FromBeBytes(bytes.hdr[2], bytes.hdr[3], bytes.hdr[4], bytes.hdr[5])
             s == GetSchema(c, AlertPacketSubject, schema_id, o)
             asked == Some(<<AlertPacketSubject, schema_id>>)
         IN  IF s.res # "Ok"
             THEN [res |-> s.res, reqs |-> s.reqs, cache |-> s.cache, alert |-> None,
                   asked |-> asked]
             ELSE IF ~IsSome(s.schema) \/ ~IsSome(bytes.payload)
             THEN [res |-> "DecodeError", reqs |-> s.reqs, cache |-> s.cache, alert |-> None,
                   asked |-> asked]
             ELSE [res |-> "Ok", reqs |-> s.reqs, cache |-> s.cache,
                   alert |-> Some(FromValue(Unwrap(bytes.payload))), asked |-> asked]

(***************************************************************************)
(* Canonical data model and enrichment.                                    *)
(***************************************************************************)
\* flux_to_mag(flux, flux_err, zp), in units of 1e-6: the magnitude is a
\* number only for a positive flux (log10), the error is flux_err / flux
FluxToMag(flux, flux_err) ==
    <<[finite |-> flux > 0, flux |-> flux],
      [finite |-> flux # 0, flux |-> flux, err |-> flux_err]>>

\* DiaSource::add_mag_data and DiaForcedSource::add_mag_data; the unwraps
\* are checked by CanAddMagData
AddMagData(x) ==
    LET science_flux == ScienceFluxPlaceholder
        psf_flux == Unwrap(x.psfFlux)
        psf_flux_err == Unwrap(x.psfFluxErr)
        m == FluxToMag(science_flux + psf_flux, psf_flux_err)
    IN  [x EXCEPT !.magpsf = Some(m[1]), !.sigmapsf = Some(m[2])]

\* add_mag_data does not panic
CanAddMagData(x) == IsSome(x.psfFlux) /\ IsSome(x.psfFluxErr)

\* the Option<_> fields of DiaSource and of DiaForcedSource
SourceOptional == {"objectId", "psfFlux", "psfFluxErr", "magpsf", "sigmapsf"}
ForcedOptional == {"psfFlux", "psfFluxErr", "magpsf", "sigmapsf"}

\* mongify: the document of a record whose optional fields are opt; absent
\* optional fields are omitted
Mongify(x, opt) ==
    [f \in (DOMAIN x \ {g \in opt : x[g] = None}) |->
        IF f \in opt THEN Unwrap(x[f]) ELSE x[f]]

\* get_coordinates
GetCoordinates(ra, dec) ==
    [radec_geojson |-> [type |-> "Point", coordinates |-> <<ra - 180, dec>>]]

\* cutout2bsonbinary
Cutout2BsonBinary(bytes) == [subtype |-> "Generic", bytes |-> bytes]

\* xmatch(ra, dec, configs, db): opaque, a function of the position
Xmatch(ra, dec) == [xmatch |-> <<ra, dec>>]

(***************************************************************************)
(* The document store.  A collection is a set of documents; every          *)
(* collection has the unique index on _id.  An operation can fail without  *)
(* reaching the store ("io"), or be refused by it with a write error       *)
(* ("write_error"); a failed operation changes nothing.                    *)
(***************************************************************************)
StoreOutcomes == {"ok", "write_error", "io"}
\* some write-error code other than the duplicate-key code
OtherWriteErrorCode == DuplicateKeyCode + 1

WriteError(code) == Some([write_error |-> TRUE, code |-> code])
OtherFailure == Some([write_error |-> FALSE, code |-> 0])

HasId(coll, id) == \E d \in coll : d._id = id
DocOf(coll, id) == CHOOSE d \in coll : d._id = id

\* (mutant) an insert on a stored _id replaces the stored document
InsertOneReplacing(coll, d, outcome) ==
    IF outcome = "io" THEN [err |-> OtherFailure, coll |-> coll]
    ELSE IF outcome = "write_error" THEN [err |-> WriteError(OtherWriteErrorCode), coll |-> coll]
    ELSE [err |-> None, coll |-> {x \in coll : x._id # d._id} \cup {d}]

\* Collection::insert_one
InsertOne(coll, d, outcome) ==
    IF outcome = "io" THEN [err |-> OtherFailure, coll |-> coll]
    ELSE IF HasId(coll, d._id) THEN [err |-> WriteError(DuplicateKeyCode), coll |-> coll]
    ELSE IF outcome = "write_error" THEN [err |-> WriteError(OtherWriteErrorCode), coll |-> coll]
    ELSE [err |-> None, coll |-> coll \cup {d}]

\* Collection::count_documents(doc! { "_id": id })
CountDocuments(coll, id, outcome) ==
    IF outcome = "ok"
    THEN [err |-> None, count |-> Cardinality({d \in coll : d._id = id})]
    ELSE [err |-> OtherFailure, count |-> 0]

\* $addToSet with $each: every item that is not yet an element of the
\* array (deep equality of documents) is appended, in order
RECURSIVE AddToSetEach(_, _)
AddToSetEach(arr, items) ==
    IF items = <<>> THEN arr
    ELSE AddToSetEach(IF Head(items) \in SeqToSet(arr) THEN arr ELSE Append(arr, Head(items)),
                      Tail(items))

\* (mutant) the update also stores the cross-matches of the new candidate
ApplyAuxUpdateSettingXmatch(d, prv_candidates_doc, fp_hist_doc, now) ==
    [d EXCEPT !.prv_candidates = AddToSetEach(@, prv_candidates_doc),
              !.fp_hists = AddToSetEach(@, fp_hist_doc),
              !.cross_matches = Xmatch(prv_candidates_doc[Len(prv_candidates_doc)].ra,
                                       prv_candidates_doc[Len(prv_candidates_doc)].dec),
              !.updated_at = now]

\* the update document of the auxiliary update branch, applied to d
ApplyAuxUpdate(d, prv_candidates_doc, fp_hist_doc, now) ==
    [d EXCEPT !.prv_candidates = AddToSetEach(@, prv_candidates_doc),
              !.fp_hists = AddToSetEach(@, fp_hist_doc),
              !.updated_at = now]

\* (mutant) the update is applied without the filter on _id
UpdateOneUnfiltered(coll, id, prv_candidates_doc, fp_hist_doc, now, outcome) ==
    IF outcome = "io" THEN [err |-> OtherFailure, coll |-> coll]
    ELSE IF outcome = "write_error" THEN [err |-> WriteError(OtherWriteErrorCode), coll |-> coll]
    ELSE [err |-> None,
          coll |-> {ApplyAuxUpdate(d, prv_candidates_doc, fp_hist_doc, now) : d \in coll}]

\* Collection::update_one(doc! { "_id": id }, update_doc)
UpdateOne(coll, id, prv_candidates_doc, fp_hist_doc, now, outcome) ==
    IF outcome = "io" THEN [err |-> OtherFailure, coll |-> coll]
    ELSE IF outcome = "write_error" THEN [err |-> WriteError(OtherWriteErrorCode), coll |-> coll]
    ELSE [err |-> None,
          coll |-> {IF d._id = id THEN ApplyAuxUpdate(d, prv_candidates_doc, fp_hist_doc, now)
                    ELSE d : d \in coll}]

(***************************************************************************)
(* Persistence coordinator: the documents process_alert builds and the     *)
(* error kinds it maps store failures to.                                  *)
(***************************************************************************)
\* alert_doc
\* (mutant) the primary document is keyed by the object
AlertDocKeyedByObject(candid, object_id, candidate_doc, ra, dec, now) ==
    [_id |-> object_id, objectId |-> candid, candidate |-> candidate_doc,
     coordinates |-> GetCoordinates(ra, dec), created_at |-> now, updated_at |-> now]

AlertDoc(candid, object_id, candidate_doc, ra, dec, now) ==
    [_id |-> candid, objectId |-> object_id, candidate |-> candidate_doc,
     coordinates |-> GetCoordinates(ra, dec), created_at |-> now, updated_at |-> now]

\* (mutant) a duplicate key is reported like any other failure
PrimaryInsertResultDupAsError(err) ==
    IF ~IsSome(err) THEN "Ok" ELSE "InsertAlertError"

\* (mutant) a duplicate key is not treated as a failure
PrimaryInsertResultDupIgnored(err) ==
    IF ~IsSome(err) THEN "Ok"
    ELSE IF Unwrap(err).write_error /\ Unwrap(err).code = DuplicateKeyCode THEN "Ok"
    ELSE "InsertAlertError"

\* (mutant) every write error is taken for a duplicate key
PrimaryInsertResultAnyWriteError(err) ==
    IF ~IsSome(err) THEN "Ok"
    ELSE IF Unwrap(err).write_error THEN "AlertExists"
    ELSE "InsertAlertError"

\* (mutant) the result of the insert is not looked at
PrimaryInsertResultIgnored(err) == "Ok"

\* the match on the result of the primary insert
PrimaryInsertResult(err) ==
    IF ~IsSome(err) THEN "Ok"
    ELSE IF Unwrap(err).write_error
         THEN IF Unwrap(err).code = DuplicateKeyCode THEN "AlertExists"
              ELSE "InsertAlertError"
         ELSE "InsertAlertError"

\* cutout_doc
CutoutDoc(candid, cs, ct, cd) ==
    [_id |-> candid, cutoutScience |-> Cutout2BsonBinary(Unwrap(cs)),
     cutoutTemplate |-> Cutout2BsonBinary(Unwrap(ct)),
     cutoutDifference |-> Cutout2BsonBinary(Unwrap(cd))]

\* (mutant) the result of the operation is discarded
MapErrSwallowed(err, kind) == "Ok"

\* map_err(..)? on a store result: Ok, or the error kind of the operation
MapErr(err, kind) == IF IsSome(err) THEN kind ELSE "Ok"

EnrichSource(x) == Mongify(AddMagData(x), SourceOptional)
EnrichForced(x) == Mongify(AddMagData(x), ForcedOptional)

\* (mutant) the current candidate is not added to the history
PrvCandidatesDocHistoryOnly(prv_candidates, candidate_doc) ==
    [i \in 1..Len(UnwrapOr(prv_candidates, <<>>)) |->
        EnrichSource(UnwrapOr(prv_candidates, <<>>)[i])]

\* prv_candidates_doc: the enriched previous detections, then the candidate
PrvCandidatesDoc(prv_candidates, candidate_doc) ==
    Append([i \in 1..Len(UnwrapOr(prv_candidates, <<>>)) |->
                EnrichSource(UnwrapOr(prv_candidates, <<>>)[i])],
           candidate_doc)

\* fp_hist_doc
FpHistDoc(fp_hist) ==
    [i \in 1..Len(UnwrapOr(fp_hist, <<>>)) |-> EnrichForced(UnwrapOr(fp_hist, <<>>)[i])]

\* the add_mag_data calls of both history lists do not panic
CanEnrichHistory(prv_candidates, fp_hist) ==
    /\ IsSome(prv_candidates) =>
          \A i \in 1..Len(Unwrap(prv_candidates)) : CanAddMagData(Unwrap(prv_candidates)[i])
    /\ IsSome(fp_hist) =>
          \A i \in 1..Len(Unwrap(fp_hist)) : CanAddMagData(Unwrap(fp_hist)[i])

\* (mutant) the right ascension is stored unshifted
AlertAuxDocUnshifted(object_id, prv_candidates_doc, fp_hist_doc, ra, dec, now) ==
    [_id |-> object_id, prv_candidates |-> prv_candidates_doc, fp_hists |-> fp_hist_doc,
     cross_matches |-> Xmatch(ra, dec), created_at |-> now, updated_at |-> now,
     coordinates |-> [radec_geojson |-> [type |-> "Point", coordinates |-> <<ra, dec>>]]]

\* (mutant) the auxiliary document is keyed by the candid of the alert
AlertAuxDocKeyedByCandid(object_id, prv_candidates_doc, fp_hist_doc, ra, dec, now) ==
    [_id |-> prv_candidates_doc[Len(prv_candidates_doc)].candid,
     prv_candidates |-> prv_candidates_doc, fp_hists |-> fp_hist_doc,
     cross_matches |-> Xmatch(ra, dec), created_at |-> now, updated_at |-> now,
     coordinates |-> [radec_geojson |-> [type |-> "Point", coordinates |-> <<ra - 180, dec>>]]]

\* alert_aux_doc
AlertAuxDoc(object_id, prv_candidates_doc, fp_hist_doc, ra, dec, now) ==
    [_id |-> object_id, prv_candidates |-> prv_candidates_doc, fp_hists |-> fp_hist_doc,
     cross_matches |-> Xmatch(ra, dec), created_at |-> now, updated_at |-> now,
     coordinates |-> [radec_geojson |-> [type |-> "Point", coordinates |-> <<ra - 180, dec>>]]]

(***************************************************************************)
(* State.                                                                  *)
(***************************************************************************)
VARIABLES
    alert_collection,         \* the primary collection
    alert_cutout_collection,  \* the cutout collection
    alert_aux_collection,     \* the auxiliary collection
    cache,                    \* cache[w]: the schema cache of worker w
    pc,                       \* pc[w]: where worker w is in process_alert
    loc,                      \* loc[w]: the local variables of the call of w
    clock,                    \* the time; every call reads it once (now)
    call,                     \* call[w]: the record of the current or last call of w
    resolved,                 \* resolved[w]: the successful get_schema calls of w, in order
    ok_schemas,               \* ok_schemas[w]: schema ids of the packets w returned Ok for
    succeeded,                \* the packets some call returned Ok for
    aux_log,                  \* per object, the calls that wrote its auxiliary document, in order
    stranded                  \* the packets of the calls that ended after their primary insert
                              \* without returning Ok

vars == <<alert_collection, alert_cutout_collection, alert_aux_collection, cache, pc, loc,
          clock, call, resolved, ok_schemas, succeeded, aux_log, stranded>>

ObjectIds == {10, 20}

NoLoc == [candid |-> 0, object_id |-> 0, ra |-> 0, dec |-> 0,
          candidate_doc |-> [candid |-> 0],
          cutouts |-> <<None, None, None>>,
          prv_candidates |-> None, fp_hist |-> None,
          prv_candidates_doc |-> <<>>, fp_hist_doc |-> <<>>]

NoResult == [kind |-> "none", val |-> 0]
NoCall == [now |-> 0, bytes |-> Short, result |-> NoResult, reqs |-> <<>>,
           wrote |-> {}, fault |-> FALSE, replay |-> FALSE, warm |-> FALSE,
           branch |-> "none", decoded |-> "none", ops |-> <<>>,
           answers |-> AllOk, retry |-> FALSE, xmatch |-> 0]

Init ==
    /\ alert_collection = {}
    /\ alert_cutout_collection = {}
    /\ alert_aux_collection = {}
    /\ cache = [w \in Workers |-> [k \in {} |-> None]]
    /\ pc = [w \in Workers |-> "idle"]
    /\ loc = [w \in Workers |-> NoLoc]
    /\ clock = 0
    /\ call = [w \in Workers |-> NoCall]
    /\ resolved = [w \in Workers |-> <<>>]
    /\ ok_schemas = [w \in Workers |-> {}]
    /\ succeeded = {}
    /\ stranded = {}
    /\ aux_log = [o \in ObjectIds |-> <<>>]

\* the schema id a well-framed packet names
SchemaIdOf(bytes) == U32FromBeBytes(bytes.hdr[2], bytes.hdr[3], bytes.hdr[4], bytes.hdr[5])

\* the registry or the store failed during the call (transport failure,
\* malformed answer, the alert subject missing from the registry, write
\* refused for a reason other than a duplicate key)
RegistryFault(res) ==
    res \in {"ConnectionError", "ParsingError", "InvalidSchema", "InvalidSubject"}

\* the call of w returns Err(kind)
ReturnErr(w, c, kind) ==
    /\ pc' = [pc EXCEPT ![w] = "idle"]
    /\ loc' = [loc EXCEPT ![w] = NoLoc]
    /\ call' = [call EXCEPT ![w] = [c EXCEPT !.result = [kind |-> kind, val |-> 0]]]
    /\ stranded' = IF "primary" \in c.wrote THEN stranded \cup {c.bytes} ELSE stranded
    /\ UNCHANGED <<ok_schemas, succeeded>>

\* the call of w panics: the task of the worker ends
Panic(w, c) ==
    /\ pc' = [pc EXCEPT ![w] = "panicked"]
    /\ loc' = [loc EXCEPT ![w] = NoLoc]
    /\ call' = [call EXCEPT ![w] = [c EXCEPT !.result = [kind |-> "Panic", val |-> 0]]]
    /\ stranded' = IF "primary" \in c.wrote THEN stranded \cup {c.bytes} ELSE stranded
    /\ UNCHANGED <<ok_schemas, succeeded>>

\* the call of w returns Ok(candid)
ReturnOk(w, c) ==
    /\ pc' = [pc EXCEPT ![w] = "idle"]
    /\ loc' = [loc EXCEPT ![w] = NoLoc]
    /\ call' = [call EXCEPT ![w] = [c EXCEPT !.result = [kind |-> "Ok", val |-> loc[w].candid]]]
    /\ ok_schemas' = [ok_schemas EXCEPT ![w] = @ \cup {SchemaIdOf(c.bytes)}]
    /\ succeeded' = succeeded \cup {c.bytes}
    /\ UNCHANGED stranded

(***************************************************************************)
(* process_alert, from its start to the primary insert: the timestamp,     *)
(* alert_from_avro_bytes, and the enrichment of the current candidate.     *)
(***************************************************************************)
\* worker w can take a packet from its queue.  Workers are interchangeable,
\* so they are numbered in the order of their first call.
Ready(w) ==
    /\ pc[w] = "idle"
    /\ clock < MaxCalls
    /\ IF w = 1 THEN TRUE ELSE call[w - 1].now > 0

Decode(w, bytes, o) ==
    /\ clock' = clock + 1
    /\ \E r \in {AlertFromAvroBytes(cache[w], bytes, o)} :
       \E c \in {[NoCall EXCEPT !.now = clock + 1, !.bytes = bytes, !.reqs = r.reqs,
                                !.fault = RegistryFault(r.res),
                                !.decoded = r.res,
                                !.answers = o,
                                !.replay = bytes \in succeeded,
                                !.retry = bytes \in stranded,
                                !.warm = Len(bytes.hdr) >= 5 /\ SchemaIdOf(bytes) \in ok_schemas[w]]} :
           /\ cache' = [cache EXCEPT ![w] = r.cache]
           /\ resolved' = [resolved EXCEPT ![w] =
                  IF Len(bytes.hdr) >= 5 /\ r.res \in {"Ok", "DecodeError"}
                  THEN Append(@, [subject |-> AlertPacketSubject,
                                  version |-> SchemaIdOf(bytes), reqs |-> r.reqs])
                  ELSE @]
           /\ IF r.res = "Panic" THEN Panic(w, c)
              ELSE IF r.res # "Ok" THEN ReturnErr(w, c, r.res)
              ELSE \E alert \in {Unwrap(r.alert)} :
                   IF ~IsSome(alert.candidate.objectId) \/ ~CanAddMagData(alert.candidate)
                   THEN \* object_id.unwrap(), psf_flux.unwrap(), psf_flux_err.unwrap()
                        Panic(w, c)
                   ELSE /\ pc' = [pc EXCEPT ![w] = "insert_alert"]
                        /\ loc' = [loc EXCEPT ![w] =
                              [NoLoc EXCEPT !.candid = alert.candid,
                                            !.object_id = Unwrap(alert.candidate.objectId),
                                            !.ra = alert.candidate.ra,
                                            !.dec = alert.candidate.dec,
                                            !.candidate_doc = EnrichSource(alert.candidate),
                                            !.cutouts = <<alert.cutoutScience, alert.cutoutTemplate,
                                                          alert.cutoutDifference>>,
                                            !.prv_candidates = alert.prv_candidates,
                                            !.fp_hist = alert.fp_hists]]
                        /\ call' = [call EXCEPT ![w] = c]
                        /\ UNCHANGED <<ok_schemas, succeeded, stranded>>
    /\ UNCHANGED <<alert_collection, alert_cutout_collection, alert_aux_collection, aux_log>>

(***************************************************************************)
(* Phase 1: the primary insert, then the construction of cutout_doc.       *)
(***************************************************************************)
\* the store failed (err is not the refusal of a duplicate key)
StoreFault(err) ==
    IF ~IsSome(err) THEN FALSE
    ELSE ~(Unwrap(err).write_error /\ Unwrap(err).code = DuplicateKeyCode)

\* a store operation of the call c failed or wrote
Account(c, err, changed, what) ==
    [c EXCEPT !.fault = @ \/ StoreFault(err),
              !.wrote = IF changed THEN @ \cup {what} ELSE @]

\* the call c has issued the store operation op, which the store answered
\* with err
Issued(c, op, err) == [c EXCEPT !.ops = Append(@, [op |-> op, err |-> err])]

InsertAlert(w, outcome) ==
    /\ pc[w] = "insert_alert"
    /\ \E l \in {loc[w]} :
       \E r \in {InsertOne(alert_collection,
                           AlertDoc(l.candid, l.object_id, l.candidate_doc, l.ra, l.dec, call[w].now),
                           outcome)} :
       \E res \in {PrimaryInsertResult(r.err)} :
       \E c \in {Issued(Account(call[w], r.err, r.coll # alert_collection, "primary"),
                         "insert_alert", r.err)} :
           /\ alert_collection' = r.coll
           /\ IF res # "Ok" THEN ReturnErr(w, c, res)
              ELSE IF \E i \in 1..3 : ~IsSome(l.cutouts[i])
              THEN \* cutout_science.unwrap(), cutout_template.unwrap(), ...
                   Panic(w, c)
              ELSE /\ pc' = [pc EXCEPT ![w] = "insert_cutout"]
                   /\ call' = [call EXCEPT ![w] = c]
                   /\ UNCHANGED <<loc, ok_schemas, succeeded, stranded>>
    /\ UNCHANGED <<alert_cutout_collection, alert_aux_collection, cache, clock, resolved, aux_log>>

(***************************************************************************)
(* Phase 2: the cutout insert.                                             *)
(***************************************************************************)
InsertCutout(w, outcome) ==
    /\ pc[w] = "insert_cutout"
    /\ \E l \in {loc[w]} :
       \E r \in {InsertOne(alert_cutout_collection,
                           CutoutDoc(l.candid, l.cutouts[1], l.cutouts[2], l.cutouts[3]),
                           outcome)} :
       \E res \in {MapErr(r.err, "InsertCutoutError")} :
       \E c \in {Issued(Account(call[w], r.err, r.coll # alert_cutout_collection, "cutout"),
                         "insert_cutout", r.err)} :
           /\ alert_cutout_collection' = r.coll
           /\ IF res # "Ok" THEN ReturnErr(w, c, res)
              ELSE /\ pc' = [pc EXCEPT ![w] = "count_aux"]
                   /\ call' = [call EXCEPT ![w] = c]
                   /\ UNCHANGED <<loc, ok_schemas, succeeded, stranded>>
    /\ UNCHANGED <<alert_collection, alert_aux_collection, cache, clock, resolved, aux_log>>

(***************************************************************************)
(* Phase 3: the existence check, then the enrichment of the history and    *)
(* the choice of the branch.                                               *)
(***************************************************************************)
\* the branch the call takes after the existence check
BranchOf(res, alert_aux_exists) ==
    IF res # "Ok" THEN "none" ELSE IF alert_aux_exists THEN "update" ELSE "insert"

CountAux(w, outcome) ==
    /\ pc[w] = "count_aux"
    /\ \E l \in {loc[w]} :
       \E r \in {CountDocuments(alert_aux_collection, l.object_id, outcome)} :
       \E res \in {MapErr(r.err, "FindObjectIdError")} :
       \E c \in {[Issued(Account(call[w], r.err, FALSE, "aux"), "count_aux", r.err) EXCEPT
                     !.branch = BranchOf(res, r.count > 0)]} :
           IF res # "Ok" THEN ReturnErr(w, c, res)
           ELSE IF ~CanEnrichHistory(l.prv_candidates, l.fp_hist)
           THEN Panic(w, c)
           ELSE /\ pc' = [pc EXCEPT ![w] = IF r.count > 0 THEN "update_aux" ELSE "insert_aux"]
                /\ loc' = [loc EXCEPT ![w] =
                      [l EXCEPT !.prv_candidates_doc = PrvCandidatesDoc(l.prv_candidates, l.candidate_doc),
                                !.fp_hist_doc = FpHistDoc(l.fp_hist)]]
                /\ call' = [call EXCEPT ![w] = c]
                /\ UNCHANGED <<ok_schemas, succeeded, stranded>>
    /\ UNCHANGED <<alert_collection, alert_cutout_collection, alert_aux_collection, cache,
                   clock, resolved, aux_log>>

\* Phase 3, absent branch: cross-match and insert
InsertAux(w, outcome) ==
    /\ pc[w] = "insert_aux"
    /\ \E l \in {loc[w]} :
       \E r \in {InsertOne(alert_aux_collection,
                           AlertAuxDoc(l.object_id, l.prv_candidates_doc, l.fp_hist_doc,
                                       l.ra, l.dec, call[w].now),
                           outcome)} :
       \E res \in {MapErr(r.err, "InsertAuxAlertError")} :
       \E c \in {[Issued(Account(call[w], r.err, r.coll # alert_aux_collection, "aux"),
                          "insert_aux", r.err) EXCEPT !.xmatch = @ + 1]} :
           /\ alert_aux_collection' = r.coll
           /\ IF res # "Ok"
              THEN ReturnErr(w, c, res) /\ UNCHANGED aux_log
              ELSE /\ ReturnOk(w, c)
                   /\ aux_log' = [aux_log EXCEPT ![l.object_id] =
                                     Append(@, [bytes |-> c.bytes, now |-> c.now, end |-> clock])]
    /\ UNCHANGED <<alert_collection, alert_cutout_collection, cache, clock, resolved>>

\* Phase 3, present branch: set-union update
UpdateAux(w, outcome) ==
    /\ pc[w] = "update_aux"
    /\ \E l \in {loc[w]} :
       \E r \in {UpdateOne(alert_aux_collection, l.object_id, l.prv_candidates_doc,
                           l.fp_hist_doc, call[w].now, outcome)} :
       \E res \in {MapErr(r.err, "UpdateAuxAlertError")} :
       \E c \in {Issued(Account(call[w], r.err, r.coll # alert_aux_collection, "aux"),
                         "update_aux", r.err)} :
           /\ alert_aux_collection' = r.coll
           /\ IF res # "Ok"
              THEN ReturnErr(w, c, res) /\ UNCHANGED aux_log
              ELSE /\ ReturnOk(w, c)
                   /\ aux_log' = [aux_log EXCEPT ![l.object_id] =
                                     Append(@, [bytes |-> c.bytes, now |-> c.now, end |-> clock])]
    /\ UNCHANGED <<alert_collection, alert_cutout_collection, cache, clock, resolved>>

\* the registry answers that a call of a worker with cache c on bytes can
\* observe: the registry is consulted only on a cache miss of a framed packet
AnswersNeeded(c, bytes) ==
    IF /\ Len(bytes.hdr) >= 5
       /\ bytes.hdr[1] = _MAGIC_BYTE
       /\ CacheKey(AlertPacketSubject, SchemaIdOf(bytes)) \notin DOMAIN c
    THEN RegistryAnswers
    ELSE {AllOk}

\* worker w takes a packet and runs process_alert up to the primary insert
Start(w) ==
    /\ Ready(w)
    /\ \E bytes \in Packets :
          \E o \in AnswersNeeded(cache[w], bytes) : Decode(w, bytes, o)

Next ==
    \/ \E w \in Workers : Start(w)
    \/ \E w \in Workers, outcome \in StoreOutcomes : InsertAlert(w, outcome)
    \/ \E w \in Workers, outcome \in {"ok", "io"} : InsertCutout(w, outcome)
    \/ \E w \in Workers, outcome \in {"ok", "io"} : CountAux(w, outcome)
    \/ \E w \in Workers, outcome \in {"ok", "io"} : InsertAux(w, outcome)
    \/ \E w \in Workers, outcome \in {"ok", "io"} : UpdateAux(w, outcome)

Spec == Init /\ [][Next]_vars

TypeOK ==
    /\ \A w \in Workers : pc[w] \in {"idle", "insert_alert", "insert_cutout", "count_aux",
                                      "insert_aux", "update_aux", "panicked"}
    /\ clock \in 0..MaxCalls

(***************************************************************************)
(* Vocabulary of the properties.                                           *)
(***************************************************************************)
\* the typed envelope a decodable packet carries
AlertOf(bytes) == FromValue(Unwrap(bytes.payload))

\* the call of w has returned or panicked
Finished(w) == pc[w] \in {"idle", "panicked"} /\ call[w].result.kind # "none"

\* the call of w has ended without Ok
Failed(w) == Finished(w) /\ call[w].result.kind # "Ok"

\* worker w takes the step, and the step starts a call
Starts(w) == call'[w].now # call[w].now

UniqueIds(coll) == \A d1, d2 \in coll : d1._id = d2._id => d1 = d2

NoRepeats(arr) == \A i, j \in 1..Len(arr) : arr[i] = arr[j] => i = j

\* the documents a packet contributes to the history arrays
PrvDocsOf(bytes) ==
    PrvCandidatesDoc(AlertOf(bytes).prv_candidates, EnrichSource(AlertOf(bytes).candidate))
FpDocsOf(bytes) == FpHistDoc(AlertOf(bytes).fp_hists)

FullFetch == <<"subjects", "versions", "schema">>

\* a packet of a published schema that carries every field process_alert
\* unwraps: the object id, the PSF flux and its error of every detection and
\* forced source, and the three cutouts
ValidPacket(bytes) ==
    /\ Len(bytes.hdr) >= 5
    /\ bytes.hdr[1] = _MAGIC_BYTE
    /\ SchemaIdOf(bytes) \in RegistryVersions
    /\ IsSome(bytes.payload)
    /\ IsSome(AlertOf(bytes).candidate.objectId)
    /\ CanAddMagData(AlertOf(bytes).candidate)
    /\ CanEnrichHistory(AlertOf(bytes).prv_candidates, AlertOf(bytes).fp_hists)
    /\ IsSome(AlertOf(bytes).cutoutScience)
    /\ IsSome(AlertOf(bytes).cutoutTemplate)
    /\ IsSome(AlertOf(bytes).cutoutDifference)

\* the detection and forced-source documents the collections hold
StoredDetections ==
    {d.candidate : d \in alert_collection}
    \cup UNION {SeqToSet(a.prv_candidates) : a \in alert_aux_collection}
    \cup UNION {SeqToSet(a.fp_hists) : a \in alert_aux_collection}

\* the error kinds a failure of a store operation is reported with
ErrorKindsOf(op) ==
    IF op = "insert_alert" THEN {"AlertExists", "InsertAlertError"}
    ELSE IF op = "insert_cutout" THEN {"InsertCutoutError"}
    ELSE IF op = "count_aux" THEN {"FindObjectIdError"}
    ELSE IF op = "insert_aux" THEN {"InsertAuxAlertError"}
    ELSE {"UpdateAuxAlertError"}

\* the error kinds of the registry layer
RegistryErrors == {"ConnectionError", "ParsingError", "InvalidSubject", "InvalidVersion",
                   "InvalidSchema"}

(***************************************************************************)
(* Properties of the primary collection and of replay.                     *)
(***************************************************************************)
\* C1: the primary collection never holds two documents with one _id, a
\* stored primary document is never removed, replaced or modified, and a
\* primary insert whose candid is already stored ends the call with
\* AlertExists (with InsertAlertError when the store could not be reached)
\* and leaves the collection as it was.
C1_PrimaryInsertOnly ==
    [][/\ UniqueIds(alert_collection')
       /\ alert_collection \subseteq alert_collection'
       /\ \A w \in Workers :
             (/\ pc[w] = "insert_alert"
              /\ pc'[w] # "insert_alert"
              /\ HasId(alert_collection, loc[w].candid))
             => /\ alert_collection' = alert_collection
                /\ pc'[w] = "idle"
                /\ call'[w].result.kind =
                      IF call'[w].fault THEN "InsertAlertError" ELSE "AlertExists"]_vars

\* C1, witness: a call was refused as a duplicate while the stored document
\* of its candid comes from another packet's call
C1_Witness ==
    \E w \in Workers :
        /\ call[w].result.kind = "AlertExists"
        /\ HasId(alert_collection, AlertOf(call[w].bytes).candid)
        /\ DocOf(alert_collection, AlertOf(call[w].bytes).candid).candidate
              # EnrichSource(AlertOf(call[w].bytes).candidate)

\* C2: a call that replays a packet some call has returned Ok for writes to
\* no collection, never gets past the primary insert, and returns
\* AlertExists unless the registry or the store failed during it.
C2_ReplayIdempotent ==
    \A w \in Workers :
        call[w].replay =>
            /\ call[w].wrote = {}
            /\ pc[w] \in {"idle", "insert_alert"}
            /\ (pc[w] = "idle" /\ ~call[w].fault) => call[w].result.kind = "AlertExists"

\* C2, witness: a replayed packet was answered with AlertExists
C2_Witness ==
    \E w \in Workers :
        /\ call[w].replay
        /\ pc[w] = "idle"
        /\ call[w].result.kind = "AlertExists"
        /\ HasId(alert_aux_collection, Unwrap(AlertOf(call[w].bytes).candidate.objectId))

(***************************************************************************)
(* The auxiliary create-or-merge.                                          *)
(***************************************************************************)
\* C3: when two workers have both taken the absent branch for one object
\* with different candids, and neither the registry nor the store failed,
\* both calls return Ok(candid) and the auxiliary document holds the
\* history of both alerts.
C3_AuxRaceSafe ==
    \A w1, w2 \in Workers :
        (/\ w1 # w2
         /\ Finished(w1) /\ Finished(w2)
         /\ call[w1].branch = "insert" /\ call[w2].branch = "insert"
         /\ ~call[w1].fault /\ ~call[w2].fault
         /\ AlertOf(call[w1].bytes).candid # AlertOf(call[w2].bytes).candid
         /\ AlertOf(call[w1].bytes).candidate.objectId = AlertOf(call[w2].bytes).candidate.objectId
         /\ CanEnrichHistory(AlertOf(call[w1].bytes).prv_candidates, AlertOf(call[w1].bytes).fp_hists)
         /\ CanEnrichHistory(AlertOf(call[w2].bytes).prv_candidates, AlertOf(call[w2].bytes).fp_hists))
        => /\ call[w1].result = [kind |-> "Ok", val |-> AlertOf(call[w1].bytes).candid]
           /\ call[w2].result = [kind |-> "Ok", val |-> AlertOf(call[w2].bytes).candid]
           /\ \E d \in alert_aux_collection :
                 /\ d._id = Unwrap(AlertOf(call[w1].bytes).candidate.objectId)
                 /\ \A w \in {w1, w2} :
                       /\ SeqToSet(PrvDocsOf(call[w].bytes)) \subseteq SeqToSet(d.prv_candidates)
                       /\ SeqToSet(FpDocsOf(call[w].bytes)) \subseteq SeqToSet(d.fp_hists)

\* C4 as stated: a call that failed has written at most the primary document
C4_OnlyPrimaryOnFailure ==
    \A w \in Workers : Failed(w) => call[w].wrote \subseteq {"primary"}

\* C4, amended: a call that failed has written nothing, or the primary
\* document alone, or the primary and the cutout document (a failure in
\* phase 3); it has written nothing to the auxiliary collection.
C4_PrefixOnFailure ==
    \A w \in Workers :
        Failed(w) => call[w].wrote \in {{}, {"primary"}, {"primary", "cutout"}}

\* C4, witness: a call failed in phase 3, after its primary and cutout inserts
C4_Witness ==
    \E w \in Workers :
        /\ Failed(w)
        /\ call[w].wrote = {"primary", "cutout"}
        /\ HasId(alert_cutout_collection, AlertOf(call[w].bytes).candid)

\* C5: when exactly two calls, one after the other, have written the
\* auxiliary document of an object, for packets with different alertIds, its
\* prv_candidates holds each element of the union of the two packets'
\* detections exactly once, and its fp_hists is the union of their forced
\* sources.
C5_MergeIsUnion ==
    \A o \in ObjectIds :
        (/\ Len(aux_log[o]) = 2
         /\ aux_log[o][2].now > aux_log[o][1].end
         /\ AlertOf(aux_log[o][1].bytes).candid # AlertOf(aux_log[o][2].bytes).candid)
        => \E d \in alert_aux_collection :
              /\ d._id = o
              /\ NoRepeats(d.prv_candidates)
              /\ SeqToSet(d.prv_candidates) =
                    SeqToSet(PrvDocsOf(aux_log[o][1].bytes)) \cup SeqToSet(PrvDocsOf(aux_log[o][2].bytes))
              /\ SeqToSet(d.fp_hists) =
                    SeqToSet(FpDocsOf(aux_log[o][1].bytes)) \cup SeqToSet(FpDocsOf(aux_log[o][2].bytes))

\* C6: in every auxiliary document no two elements of prv_candidates carry
\* the same candid and no two elements of fp_hists the same
\* diaForcedSourceId.
C6_KeyedSets ==
    \A d \in alert_aux_collection :
        /\ \A i, j \in 1..Len(d.prv_candidates) :
              d.prv_candidates[i].candid = d.prv_candidates[j].candid => i = j
        /\ \A i, j \in 1..Len(d.fp_hists) :
              d.fp_hists[i].diaForcedSourceId = d.fp_hists[j].diaForcedSourceId => i = j

(***************************************************************************)
(* The schema cache.                                                       *)
(***************************************************************************)
\* C7: among the successful resolutions a worker has made of one
\* (subject, version), the first made one round of registry requests
\* (subjects, versions, schema, each once) and every later one made none.
C7_FetchedOnce ==
    \A w \in Workers : \A i \in 1..Len(resolved[w]) :
        resolved[w][i].reqs =
            IF \E j \in 1..(i - 1) :
                  /\ resolved[w][j].subject = resolved[w][i].subject
                  /\ resolved[w][j].version = resolved[w][i].version
            THEN <<>>
            ELSE FullFetch

\* C7, witness: a worker has resolved one (subject, version) twice
C7_Witness ==
    \E w \in Workers :
        /\ Len(resolved[w]) >= 2
        /\ resolved[w][1].version = resolved[w][2].version
        /\ resolved[w][1].reqs = FullFetch

\* C8: a call on a packet whose schema id the worker has already returned
\* Ok for makes no registry request and gets no registry error.
C8_WarmNoRegistry ==
    \A w \in Workers :
        call[w].warm =>
            /\ call[w].reqs = <<>>
            /\ call[w].result.kind \notin RegistryErrors

\* C8, witness: a worker has finished a second packet of a schema id
C8_Witness ==
    \E w \in Workers :
        /\ call[w].warm
        /\ Finished(w)
        /\ call[w].result.kind \in {"Ok", "AlertExists"}

\* C9: a call on a framed packet whose schema id the registry does not list,
\* the registry answering, returns InvalidVersion after asking for the
\* subjects and the versions only, and writes to no collection.
C9_UnknownSchema ==
    \A w \in Workers :
        (/\ call[w].now > 0
         /\ Len(call[w].bytes.hdr) >= 5
         /\ call[w].bytes.hdr[1] = _MAGIC_BYTE
         /\ SchemaIdOf(call[w].bytes) \notin RegistryVersions
         /\ ~call[w].fault)
        => /\ pc[w] = "idle"
           /\ call[w].result.kind = "InvalidVersion"
           /\ call[w].reqs = <<"subjects", "versions">>
           /\ call[w].wrote = {}

\* C9, witness: a call was refused with InvalidVersion
C9_Witness ==
    \E w \in Workers :
        /\ call[w].result.kind = "InvalidVersion"
        /\ call[w].bytes = UnknownSchema

(***************************************************************************)
(* The packet decoder.                                                     *)
(***************************************************************************)
\* C10: a call on a buffer whose first byte is not the magic byte returns
\* MagicBytesError, makes no registry request, and changes neither the
\* schema cache nor any collection.
C10_BadMagic ==
    [][\A w \in Workers :
          (/\ Starts(w)
           /\ call'[w].bytes.hdr # <<>>
           /\ call'[w].bytes.hdr[1] # _MAGIC_BYTE)
          => /\ pc'[w] = "idle"
             /\ call'[w].result.kind = "MagicBytesError"
             /\ call'[w].reqs = <<>>
             /\ cache' = cache
             /\ UNCHANGED <<alert_collection, alert_cutout_collection, alert_aux_collection>>]_vars

\* C10 for buffers that hold a whole header
C10_BadMagicFramed ==
    [][\A w \in Workers :
          (/\ Starts(w)
           /\ Len(call'[w].bytes.hdr) >= 5
           /\ call'[w].bytes.hdr[1] # _MAGIC_BYTE)
          => /\ pc'[w] = "idle"
             /\ call'[w].result.kind = "MagicBytesError"
             /\ call'[w].reqs = <<>>
             /\ cache' = cache
             /\ UNCHANGED <<alert_collection, alert_cutout_collection, alert_aux_collection>>]_vars

\* C11: the packet decoder returns an envelope or an error value for every
\* buffer, the empty one and those shorter than the header included: no
\* call ends abnormally inside alert_from_avro_bytes.
C11_DecoderTotal ==
    \A w \in Workers : call[w].decoded # "Panic"

\* C11 for buffers that hold a whole header: the decoder returns an envelope
\* or one of its error values
C11_DecoderTotalFramed ==
    \A w \in Workers :
        (call[w].now > 0 /\ Len(call[w].bytes.hdr) >= 5)
        => call[w].decoded \in {"Ok", "MagicBytesError", "DecodeError"} \cup RegistryErrors

(***************************************************************************)
(* The coordinator.                                                        *)
(***************************************************************************)
\* C12: a call whose packet decoded returns the candid or a tagged error:
\* it does not end abnormally, whatever optional fields the packet lacks.
C12_NoPanicAfterDecode ==
    \A w \in Workers : call[w].decoded = "Ok" => call[w].result.kind # "Panic"

\* C13: the one call made on an empty store, on a valid packet and with the
\* registry and the store working, returns the packet's alertId and leaves
\* exactly one document in each collection: _id = alertId in the primary
\* and in the cutout collection, _id = diaObjectId in the auxiliary one.
C13_HappyPath ==
    \A w \in Workers :
        (/\ clock = 1
         /\ call[w].now = 1
         /\ Finished(w)
         /\ ValidPacket(call[w].bytes)
         /\ ~call[w].fault)
        => /\ call[w].result = [kind |-> "Ok", val |-> Unwrap(call[w].bytes.payload).alertId]
           /\ {d._id : d \in alert_collection} = {Unwrap(call[w].bytes.payload).alertId}
           /\ Cardinality(alert_collection) = 1
           /\ {d._id : d \in alert_cutout_collection} = {Unwrap(call[w].bytes.payload).alertId}
           /\ Cardinality(alert_cutout_collection) = 1
           /\ {d._id : d \in alert_aux_collection} =
                 {Unwrap(Unwrap(call[w].bytes.payload).diaSource.diaObjectId)}
           /\ Cardinality(alert_aux_collection) = 1

\* C13, witness: the first call, on alert 2 of object 10, has returned Ok
C13_Witness ==
    \E w \in Workers :
        /\ clock = 1
        /\ call[w].bytes = A2
        /\ call[w].result = [kind |-> "Ok", val |-> 2]
        /\ HasId(alert_aux_collection, 10)

\* C14: whenever no call is in flight (and none has ended abnormally), an
\* auxiliary document exists for an object exactly when the primary
\* collection holds an alert of that object.
C14_AuxIffPrimary ==
    (\A w \in Workers : pc[w] = "idle")
    => \A o \in ObjectIds :
          HasId(alert_aux_collection, o) <=> (\E d \in alert_collection : d.objectId = o)

\* C14, the direction the write order gives: an auxiliary document exists
\* only for an object with an alert in the primary collection, and exists
\* for the object of every packet a call has returned Ok for
C14_AuxOnlyIfPrimary ==
    /\ \A a \in alert_aux_collection : \E d \in alert_collection : d.objectId = a._id
    /\ \A bytes \in succeeded :
          HasId(alert_aux_collection, Unwrap(AlertOf(bytes).candidate.objectId))

\* C15: within one call no registry request and no store operation is
\* issued twice, and the auxiliary document is inserted or updated, not
\* both; store operations are issued only after the packet decoded; a
\* failed operation is the last one of the call and the call returns that
\* operation's error kind; an error of the decoder is returned as it is;
\* a call that returns Ok had no failed operation.
C15_NoRetryNoRewrite ==
    \A w \in Workers :
        LET c == call[w] IN
        /\ NoRepeats(c.reqs)
        /\ \A i, j \in 1..Len(c.ops) : c.ops[i].op = c.ops[j].op => i = j
        /\ ~\E i, j \in 1..Len(c.ops) : c.ops[i].op = "insert_aux" /\ c.ops[j].op = "update_aux"
        /\ c.ops # <<>> => c.decoded = "Ok"
        /\ \A i \in 1..Len(c.ops) :
              IsSome(c.ops[i].err)
              => /\ i = Len(c.ops)
                 /\ pc[w] = "idle"
                 /\ c.result.kind \in ErrorKindsOf(c.ops[i].op)
        /\ c.decoded \notin {"none", "Ok", "Panic"}
              => /\ pc[w] = "idle"
                 /\ c.ops = <<>>
                 /\ c.result.kind = c.decoded
        /\ c.result.kind = "Ok" => \A i \in 1..Len(c.ops) : ~IsSome(c.ops[i].err)

\* C15, witness: a call ended at its failed cutout insert
C15_Witness ==
    \E w \in Workers :
        /\ Len(call[w].ops) = 2
        /\ IsSome(call[w].ops[2].err)
        /\ call[w].result.kind = "InsertCutoutError"

\* C16: a call whose primary insert failed returns AlertExists exactly when
\* the store reported a write error with code 11000 and InsertAlertError
\* for every other failure; the primary insert is then the only store
\* operation of the call, and the call has written nothing.
C16_PrimaryErrorKinds ==
    \A w \in Workers :
        (Len(call[w].ops) >= 1 /\ IsSome(call[w].ops[1].err))
        => /\ call[w].ops[1].op = "insert_alert"
           /\ Len(call[w].ops) = 1
           /\ pc[w] = "idle"
           /\ call[w].wrote = {}
           /\ call[w].result.kind =
                 IF /\ Unwrap(call[w].ops[1].err).write_error
                    /\ Unwrap(call[w].ops[1].err).code = DuplicateKeyCode
                 THEN "AlertExists"
                 ELSE "InsertAlertError"

\* C16, witness: a write error with a code other than 11000 has ended a
\* call with InsertAlertError
C16_Witness ==
    \E w \in Workers :
        /\ call[w].result.kind = "InsertAlertError"
        /\ call[w].ops = <<[op |-> "insert_alert", err |-> WriteError(OtherWriteErrorCode)]>>

\* C16, a write error with code 11000 has ended a call with AlertExists
C16_WitnessDuplicate ==
    \E w \in Workers :
        /\ call[w].result.kind = "AlertExists"
        /\ call[w].ops = <<[op |-> "insert_alert", err |-> WriteError(DuplicateKeyCode)]>>

\* C16, the failure that is no write error is reported as InsertAlertError
C16_WitnessNoWriteError ==
    \E w \in Workers :
        /\ call[w].result.kind = "InsertAlertError"
        /\ call[w].ops = <<[op |-> "insert_alert", err |-> OtherFailure]>>

(***************************************************************************)
(* The order of the registry checks.                                       *)
(***************************************************************************)
\* C17: a resolution that misses the cache, the registry's requests being
\* answered, is rejected with InvalidSubject after the subjects request
\* alone when the subject is not listed, else with InvalidVersion after the
\* subjects and versions requests when the version is not listed, else with
\* InvalidSchema after the three requests when the schema text does not
\* parse; a rejected resolution leaves the cache as it was, and an accepted
\* one adds its key.
C17_ValidationOrder ==
    [][\A w \in Workers :
          (/\ Starts(w)
           /\ Len(call'[w].bytes.hdr) >= 5
           /\ call'[w].bytes.hdr[1] = _MAGIC_BYTE
           /\ CacheKey(AlertPacketSubject, SchemaIdOf(call'[w].bytes)) \notin DOMAIN cache[w]
           /\ \A e \in Endpoints : call'[w].answers[e] \in {"ok", "nosubject", "badschema"})
          => IF call'[w].answers["subjects"] = "nosubject"
             THEN /\ call'[w].result.kind = "InvalidSubject"
                  /\ call'[w].reqs = <<"subjects">>
                  /\ cache'[w] = cache[w]
             ELSE IF SchemaIdOf(call'[w].bytes) \notin RegistryVersions
             THEN /\ call'[w].result.kind = "InvalidVersion"
                  /\ call'[w].reqs = <<"subjects", "versions">>
                  /\ cache'[w] = cache[w]
             ELSE IF call'[w].answers["schema"] = "badschema"
             THEN /\ call'[w].result.kind = "InvalidSchema"
                  /\ call'[w].reqs = FullFetch
                  /\ cache'[w] = cache[w]
             ELSE /\ call'[w].decoded \in {"Ok", "DecodeError"}
                  /\ call'[w].reqs = FullFetch
                  /\ DOMAIN cache'[w] =
                        DOMAIN cache[w] \cup {CacheKey(AlertPacketSubject, SchemaIdOf(call'[w].bytes))}]_vars

\* C17, witness: a packet of an unpublished version, with a schema body
\* that would not parse, was rejected for its subject
C17_Witness ==
    \E w \in Workers :
        /\ call[w].bytes = UnknownSchema
        /\ call[w].answers["subjects"] = "nosubject"
        /\ call[w].answers["schema"] = "badschema"
        /\ call[w].result.kind = "InvalidSubject"
        /\ DOMAIN cache[w] = {}

(***************************************************************************)
(* Enrichment.                                                             *)
(***************************************************************************)
\* C18: every stored detection and forced source carries both magpsf and
\* sigmapsf when its effective flux (the science flux stand-in plus
\* psfFlux) is positive, and neither when it is zero or negative.
C18_MagnitudePresence ==
    \A x \in StoredDetections :
        IF ScienceFluxPlaceholder + x.psfFlux > 0
        THEN {"magpsf", "sigmapsf"} \subseteq DOMAIN x
        ELSE {"magpsf", "sigmapsf"} \cap DOMAIN x = {}

\* C18, the half that holds: with a positive effective flux both fields are
\* stored and the magnitude is a number
C18_PresentWhenPositive ==
    \A x \in StoredDetections :
        ScienceFluxPlaceholder + x.psfFlux > 0
        => /\ {"magpsf", "sigmapsf"} \subseteq DOMAIN x
           /\ x.magpsf.finite
           /\ x.sigmapsf.finite

(***************************************************************************)
(* Replay after a partial write.                                           *)
(***************************************************************************)
\* C19: once a call on a packet has ended (by an error or abnormally) after
\* its primary insert, no call has written that packet's auxiliary history,
\* and every later call on the packet issues the primary insert at most,
\* writes to no collection and, unless the registry or the store fails
\* during it, returns AlertExists.
C19_StrandedForever ==
    /\ \A b \in stranded : \A o \in ObjectIds : \A i \in 1..Len(aux_log[o]) :
          aux_log[o][i].bytes # b
    /\ \A w \in Workers :
          call[w].retry
          => /\ call[w].wrote = {}
             /\ \A i \in 1..Len(call[w].ops) : call[w].ops[i].op = "insert_alert"
             /\ pc[w] \in {"idle", "insert_alert"}
             /\ (pc[w] = "idle" /\ ~call[w].fault) => call[w].result.kind = "AlertExists"

\* C19, witness: a packet whose call failed after the primary insert was
\* replayed and refused, and its object has no auxiliary document
C19_Witness ==
    \E w \in Workers :
        /\ call[w].retry
        /\ call[w].result.kind = "AlertExists"
        /\ call[w].bytes \in stranded
        /\ HasId(alert_collection, AlertOf(call[w].bytes).candid)
        /\ ~HasId(alert_aux_collection, Unwrap(AlertOf(call[w].bytes).candidate.objectId))

(***************************************************************************)
(* Cross-matching.                                                         *)
(***************************************************************************)
\* C20: the cross-match routine is invoked only in the step that creates
\* the auxiliary document, by a call whose existence check found none, and
\* once; the step of the update branch invokes no cross-match and leaves
\* the cross_matches of every auxiliary document as they were.
C20_XmatchOnlyOnCreate ==
    [][\A w \in Workers :
          /\ (call'[w].xmatch # call[w].xmatch /\ ~Starts(w))
                => /\ pc[w] = "insert_aux"
                   /\ call[w].branch = "insert"
                   /\ call[w].xmatch = 0
                   /\ call'[w].xmatch = 1
          /\ (pc[w] = "update_aux" /\ pc'[w] # "update_aux")
                => /\ call[w].branch = "update"
                   /\ call'[w].xmatch = 0
                   /\ \A d \in alert_aux_collection :
                         /\ HasId(alert_aux_collection', d._id)
                         /\ DocOf(alert_aux_collection', d._id).cross_matches = d.cross_matches]_vars

\* C20, witness: alert 2 was merged into the auxiliary document alert 1
\* created, whose cross-matches are still those of alert 1's position
C20_Witness ==
    \E w \in Workers :
        /\ call[w].bytes = A2
        /\ call[w].branch = "update"
        /\ call[w].result.kind = "Ok"
        /\ call[w].xmatch = 0
        /\ HasId(alert_aux_collection, 10)
        /\ DocOf(alert_aux_collection, 10).cross_matches = Xmatch(S1.ra, S1.dec)
        /\ Xmatch(S1.ra, S1.dec) # Xmatch(S2.ra, S2.dec)

(***************************************************************************)
(* Stored coordinates.                                                     *)
(***************************************************************************)
\* C21: the coordinates of every primary document are [ra - 180, dec] of
\* its own candidate, and the coordinates of every auxiliary document are
\* [ra - 180, dec] of the current detection of the packet that created it.
C21_CoordinateConvention ==
    /\ \A d \in alert_collection :
          d.coordinates.radec_geojson.coordinates = <<d.candidate.ra - 180, d.candidate.dec>>
    /\ \A o \in ObjectIds :
          HasId(alert_aux_collection, o)
          => /\ Len(aux_log[o]) >= 1
             /\ DocOf(alert_aux_collection, o).coordinates.radec_geojson.coordinates =
                   <<AlertOf(aux_log[o][1].bytes).candidate.ra - 180,
                     AlertOf(aux_log[o][1].bytes).candidate.dec>>

\* C21, witness: alert 2, at ra 190 and dec 20, created the auxiliary
\* document of object 10; both its documents store [10, 20]
C21_Witness ==
    /\ HasId(alert_collection, 2)
    /\ DocOf(alert_collection, 2).coordinates.radec_geojson.coordinates = <<10, 20>>
    /\ HasId(alert_aux_collection, 10)
    /\ aux_log[10][1].bytes = A2
    /\ DocOf(alert_aux_collection, 10).coordinates.radec_geojson.coordinates = <<10, 20>>

(***************************************************************************)
(* The schema cache on its own: get_schema applied to caches that hold the *)
(* schema of one (subject, version) pair, for subjects and versions whose  *)
(* renderings are close to one another.                                    *)
(***************************************************************************)
KeySubjects == {"alert-packet", "a", "a1", "a:1"}
KeyVersions == {1, 11}
KeyPairs == KeySubjects \X KeyVersions
\* the registry answers every request, or fails one of them
KeyAnswers == {AllOk, [AllOk EXCEPT !["schema"] = "conn"],
               [AllOk EXCEPT !["subjects"] = "parse"]}

\* the caches get_schema leaves after at most one successful resolution
SeededCaches ==
    {[k \in {} |-> None]}
    \cup {CacheInsert([k \in {} |-> None], CacheKey(p[1], p[2]), SchemaOf(p[1], p[2])) :
             p \in KeyPairs}

InitKeys ==
    /\ alert_collection = {}
    /\ alert_cutout_collection = {}
    /\ alert_aux_collection = {}
    /\ cache \in [Workers -> SeededCaches]
    /\ pc = [w \in Workers |-> "idle"]
    /\ loc = [w \in Workers |-> NoLoc]
    /\ clock = 0
    /\ call = [w \in Workers |-> NoCall]
    /\ resolved = [w \in Workers |-> <<>>]
    /\ ok_schemas = [w \in Workers |-> {}]
    /\ succeeded = {}
    /\ aux_log = [o \in ObjectIds |-> <<>>]
    /\ stranded = {}

\* worker w resolves (subject, version); o: the registry's answers
ResolveKey(w, subject, version, o) ==
    /\ clock < MaxCalls
    /\ clock' = clock + 1
    /\ \E r \in {GetSchema(cache[w], subject, version, o)} :
          /\ cache' = [cache EXCEPT ![w] = r.cache]
          /\ resolved' = [resolved EXCEPT ![w] =
                 Append(@, [subject |-> subject, version |-> version, reqs |-> r.reqs,
                            res |-> r.res, schema |-> r.schema])]
    /\ UNCHANGED <<alert_collection, alert_cutout_collection, alert_aux_collection, pc, loc,
                   call, ok_schemas, succeeded, aux_log, stranded>>

NextKeys == \E w \in Workers, subject \in KeySubjects, version \in KeyVersions,
                  o \in KeyAnswers :
               ResolveKey(w, subject, version, o)

SpecKeys == InitKeys /\ [][NextKeys]_vars

\* C22: two different (subject, version) pairs never have the same cache
\* key, and a successful resolution returns the schema of the pair it was
\* asked for, whatever the cache holds.
C22_KeyInjective ==
    /\ \A p1, p2 \in KeyPairs :
          CacheKey(p1[1], p1[2]) = CacheKey(p2[1], p2[2]) => p1 = p2
    /\ \A w \in Workers : \A i \in 1..Len(resolved[w]) :
          resolved[w][i].res = "Ok"
          => resolved[w][i].schema =
                Some(SchemaOf(resolved[w][i].subject, resolved[w][i].version))

\* C22, witness: a cache that holds the schema of ("a1", 1) was asked for
\* ("a", 11) and for ("a1", 1), and answered only the latter from the cache
C22_Witness ==
    \E w \in Workers :
        /\ DOMAIN cache[w] = {CacheKey("a1", 1)}
        /\ Len(resolved[w]) = 2
        /\ resolved[w][1].subject = "a" /\ resolved[w][1].version = 11
        /\ resolved[w][1].res # "Ok"
        /\ resolved[w][2].subject = "a1" /\ resolved[w][2].version = 1
        /\ resolved[w][2].res = "Ok" /\ resolved[w][2].reqs = <<>>

\* C23: a worker's schema cache only grows.  No step removes or replaces an
\* entry; a successful resolution of a pair the cache lacks adds exactly the
\* entry of that pair; a resolution answered from the cache and a failed
\* resolution leave the cache as it was, and so does every other step.
C23_CacheOnlyGrows ==
    [][\A w \in Workers :
         /\ \A k \in DOMAIN cache[w] : k \in DOMAIN cache'[w] /\ cache'[w][k] = cache[w][k]
         /\ IF Len(resolved'[w]) = Len(resolved[w]) + 1
            THEN LET e == resolved'[w][Len(resolved'[w])]
                     key == CacheKey(e.subject, e.version)
                 IN  IF e.res = "Ok" /\ key \notin DOMAIN cache[w]
                     THEN /\ DOMAIN cache'[w] = DOMAIN cache[w] \cup {key}
                          /\ cache'[w][key] = SchemaOf(e.subject, e.version)
                     ELSE cache'[w] = cache[w]
            ELSE cache'[w] = cache[w]]_vars

\* C23, witness: a cache that held the schema of ("a", 1) failed to resolve
\* one pair, then fetched ("alert-packet", 1), and holds both entries
C23_Witness ==
    \E w \in Workers :
        /\ Len(resolved[w]) = 2
        /\ resolved[w][1].res # "Ok"
        /\ resolved[w][2].res = "Ok" /\ resolved[w][2].reqs # <<>>
        /\ resolved[w][2].subject = AlertPacketSubject /\ resolved[w][2].version = 1
        /\ DOMAIN cache[w] = {CacheKey("a", 1), CacheKey(AlertPacketSubject, 1)}
        /\ cache[w][CacheKey("a", 1)] = SchemaOf("a", 1)

\* C24: a call that creates the auxiliary document stores in prv_candidates
\* the enriched current candidate first, followed by the packet's previous
\* detections in wire order, and in fp_hists the packet's forced-source
\* samples in wire order.
C24_CandidateFirst ==
    [][\A w \in Workers :
         (pc[w] = "insert_aux" /\ call'[w].result.kind = "Ok")
         => LET a == AlertOf(call[w].bytes)
                prv == UnwrapOr(a.prv_candidates, <<>>)
                d == DocOf(alert_aux_collection', loc[w].object_id)
            IN  /\ d.prv_candidates =
                      <<EnrichSource(a.candidate)>> \o [i \in 1..Len(prv) |-> EnrichSource(prv[i])]
                /\ d.fp_hists = FpHistDoc(a.fp_hists)]_vars

\* C24, what the code does: the previous detections in wire order come
\* first and the enriched current candidate is the last element
C24_CandidateLast ==
    [][\A w \in Workers :
         (pc[w] = "insert_aux" /\ call'[w].result.kind = "Ok")
         => LET a == AlertOf(call[w].bytes)
                prv == UnwrapOr(a.prv_candidates, <<>>)
                d == DocOf(alert_aux_collection', loc[w].object_id)
            IN  /\ d.prv_candidates =
                      [i \in 1..Len(prv) |-> EnrichSource(prv[i])] \o <<EnrichSource(a.candidate)>>
                /\ d.fp_hists = FpHistDoc(a.fp_hists)]_vars

(***************************************************************************)
(* The framing on its own: alert_from_avro_bytes applied to flat byte      *)
(* buffers.  The cursor hands the first five bytes to the header and what  *)
(* follows them to the datum decoder.                                      *)
(***************************************************************************)
\* values of the most significant byte and of the three other bytes of the
\* schema id (the product of the most significant byte by 2^24 has to fit
\* the integers of the model checker)
HighBytes == {0, 1, 127}
FrameBytes == {0, 1, 255}
\* the bytes after the header: nothing, the encodings of two alerts, and
\* bytes that encode nothing
Datums == {<<>>, <<1>>, <<3>>, <<0, 1>>}
Buffers ==
    {<<_MAGIC_BYTE, b1, b2, b3, b4>> \o d :
        b1 \in HighBytes, b2 \in FrameBytes, b3 \in FrameBytes, b4 \in FrameBytes, d \in Datums}
    \cup {<<1, 0, 0, 0, 1, 1>>, <<_MAGIC_BYTE, 0, 0>>, <<>>}

\* (mutant) the cursor is not advanced by the read
ReadExactNoAdvance(avro_bytes, n) ==
    [buffer |-> SubSeq(avro_bytes, 1, IF Len(avro_bytes) < n THEN Len(avro_bytes) ELSE n),
     rest |-> avro_bytes]

\* Cursor::read_exact of n bytes: the bytes read and what the cursor has left
ReadExact(avro_bytes, n) ==
    [buffer |-> SubSeq(avro_bytes, 1, IF Len(avro_bytes) < n THEN Len(avro_bytes) ELSE n),
     rest |-> SubSeq(avro_bytes, n + 1, Len(avro_bytes))]

\* from_avro_datum: the value tree the bytes encode under the schema, if any
FromAvroDatum(datum) ==
    IF datum = <<1>> THEN A1.payload
    ELSE IF datum = <<3>> THEN A3.payload
    ELSE None

\* the cursor of alert_from_avro_bytes over a flat buffer
Framed(avro_bytes) ==
    Packet(ReadExact(avro_bytes, 5).buffer, FromAvroDatum(ReadExact(avro_bytes, 5).rest))

InitFrame ==
    /\ alert_collection = {}
    /\ alert_cutout_collection = {}
    /\ alert_aux_collection = {}
    /\ cache = [w \in Workers |-> [k \in {} |-> None]]
    /\ pc = [w \in Workers |-> "idle"]
    /\ loc = [w \in Workers |-> NoLoc]
    /\ clock = 0
    /\ call = [w \in Workers |-> NoCall]
    /\ resolved = [w \in Workers |-> <<>>]
    /\ ok_schemas = [w \in Workers |-> {}]
    /\ succeeded = {}
    /\ aux_log = [o \in ObjectIds |-> <<>>]
    /\ stranded = {}

\* worker w decodes the buffer avro_bytes
DecodeBuffer(w, avro_bytes) ==
    /\ pc[w] = "idle"
    /\ clock < MaxCalls
    /\ clock' = clock + 1
    /\ \E r \in {AlertFromAvroBytes(cache[w], Framed(avro_bytes), AllOk)} :
          /\ cache' = [cache EXCEPT ![w] = r.cache]
          /\ pc' = [pc EXCEPT ![w] = IF r.res = "Panic" THEN "panicked" ELSE "idle"]
          /\ resolved' = [resolved EXCEPT ![w] =
                 Append(@, [bytes |-> avro_bytes, asked |-> r.asked, res |-> r.res,
                            datum |-> ReadExact(avro_bytes, 5).rest, alert |-> r.alert])]
    /\ UNCHANGED <<alert_collection, alert_cutout_collection, alert_aux_collection, loc,
                   call, ok_schemas, succeeded, aux_log, stranded>>

NextFrame == \E w \in Workers, avro_bytes \in Buffers : DecodeBuffer(w, avro_bytes)

SpecFrame == InitFrame /\ [][NextFrame]_vars

\* C25: for a buffer of at least five bytes that starts with the magic
\* byte, the decoder resolves subject "alert-packet" and the version
\* b1*2^24 + b2*2^16 + b3*2^8 + b4 of header bytes 1..4, and what it decodes
\* is exactly the bytes after the fifth byte of the buffer.
C25_BigEndianFraming ==
    \A w \in Workers : \A i \in 1..Len(resolved[w]) :
        LET e == resolved[w][i]
            b == e.bytes
        IN  (Len(b) >= 5 /\ b[1] = 0)
            => /\ e.asked = Some(<<"alert-packet",
                                   b[2] * 16777216 + b[3] * 65536 + b[4] * 256 + b[5]>>)
               /\ e.datum = [j \in 1..(Len(b) - 5) |-> b[j + 5]]
               /\ e.res = "Ok" => e.alert = Some(FromValue(Unwrap(FromAvroDatum(e.datum))))

\* C25, witness: the header bytes 1, 0, 255, 1 asked for version 16842497,
\* and the header bytes 0, 0, 0, 1 followed by the encoding of alert 3 asked
\* for version 1 and decoded alert 3
C25_Witness ==
    \E w \in Workers :
        /\ Len(resolved[w]) = 2
        /\ resolved[w][1].bytes = <<0, 1, 0, 255, 1, 1>>
        /\ resolved[w][1].asked = Some(<<"alert-packet", 16842497>>)
        /\ resolved[w][1].res = "InvalidVersion"
        /\ resolved[w][2].bytes = <<0, 0, 0, 0, 1, 3>>
        /\ resolved[w][2].asked = Some(<<"alert-packet", 1>>)
        /\ resolved[w][2].datum = <<3>>
        /\ resolved[w][2].res = "Ok"
        /\ Unwrap(resolved[w][2].alert).candid = 3

(***************************************************************************)
(* The workers on a store that already holds an object: alert 3 of object  *)
(* 20 was processed, at time 0, before the workers of the model started.   *)
(***************************************************************************)
InitAfter ==
    /\ alert_collection =
          {AlertDoc(AlertOf(A3).candid, 20, EnrichSource(AlertOf(A3).candidate),
                    AlertOf(A3).candidate.ra, AlertOf(A3).candidate.dec, 0)}
    /\ alert_cutout_collection =
          {CutoutDoc(AlertOf(A3).candid, AlertOf(A3).cutoutScience,
                     AlertOf(A3).cutoutTemplate, AlertOf(A3).cutoutDifference)}
    /\ alert_aux_collection =
          {AlertAuxDoc(20, PrvDocsOf(A3), FpDocsOf(A3),
                       AlertOf(A3).candidate.ra, AlertOf(A3).candidate.dec, 0)}
    /\ cache = [w \in Workers |-> [k \in {} |-> None]]
    /\ pc = [w \in Workers |-> "idle"]
    /\ loc = [w \in Workers |-> NoLoc]
    /\ clock = 0
    /\ call = [w \in Workers |-> NoCall]
    /\ resolved = [w \in Workers |-> <<>>]
    /\ ok_schemas = [w \in Workers |-> {}]
    /\ succeeded = {A3}
    /\ stranded = {}
    /\ aux_log = [o \in ObjectIds |->
                    IF o = 20 THEN <<[bytes |-> A3, now |-> 0, end |-> 0]>> ELSE <<>>]

SpecAfter == InitAfter /\ [][Next]_vars

(***************************************************************************)
(* Frame of the update branch.                                             *)
(***************************************************************************)
\* C26: the step of the update branch changes at most prv_candidates,
\* fp_hists and updated_at of the auxiliary document of the call's object:
\* its _id, created_at, cross_matches and coordinates stay, the auxiliary
\* documents of the other objects stay as they are, none is added or
\* removed, and the other two collections are not touched.
C26_UpdateFrame ==
    [][\A w \in Workers :
         (pc[w] = "update_aux" /\ pc'[w] # "update_aux")
         => /\ {d._id : d \in alert_aux_collection'} = {d._id : d \in alert_aux_collection}
            /\ UniqueIds(alert_aux_collection')
            /\ \A d \in alert_aux_collection :
                  IF d._id # loc[w].object_id
                  THEN d \in alert_aux_collection'
                  ELSE \E e \in alert_aux_collection' :
                          /\ e._id = d._id
                          /\ e.created_at = d.created_at
                          /\ e.cross_matches = d.cross_matches
                          /\ e.coordinates = d.coordinates
            /\ alert_collection' = alert_collection
            /\ alert_cutout_collection' = alert_cutout_collection]_vars

\* C26, witness: alert 2 was merged into the auxiliary document of object
\* 10, created at time 1 and updated at time 2, next to the auxiliary
\* document of object 20, which is as it was
C26_Witness ==
    \E w \in Workers :
        /\ call[w].bytes = A2
        /\ call[w].branch = "update"
        /\ call[w].result.kind = "Ok"
        /\ HasId(alert_aux_collection, 10)
        /\ DocOf(alert_aux_collection, 10).created_at = 1
        /\ DocOf(alert_aux_collection, 10).updated_at = 2
        /\ Len(DocOf(alert_aux_collection, 10).prv_candidates) > Len(PrvDocsOf(A1))
        /\ AlertAuxDoc(20, PrvDocsOf(A3), FpDocsOf(A3),
                       AlertOf(A3).candidate.ra, AlertOf(A3).candidate.dec, 0)
              \in alert_aux_collection

(***************************************************************************)
(* Timestamps of the auxiliary documents.                                  *)
(***************************************************************************)
\* C27: every auxiliary document was created no later than it was last
\* updated, whatever the interleaving of the workers that wrote it.
C27_CreatedBeforeUpdated ==
    \A d \in alert_aux_collection : d.created_at <= d.updated_at

\* C27, what the code keeps: the two timestamps of an auxiliary document
\* are timestamps of calls that wrote it, created_at that of the call that
\* inserted it and updated_at that of the call that wrote it last
C27_TimestampsOfWriters ==
    \A o \in ObjectIds :
        HasId(alert_aux_collection, o)
        => /\ Len(aux_log[o]) >= 1
           /\ DocOf(alert_aux_collection, o).created_at = aux_log[o][1].now
           /\ DocOf(alert_aux_collection, o).updated_at = aux_log[o][Len(aux_log[o])].now

(***************************************************************************)
(* References between the collections.                                     *)
(***************************************************************************)
\* C28: the _id of every cutout document is the _id of a primary document,
\* and the _id of every auxiliary document is the objectId of a primary
\* document.
C28_ReferencesResolve ==
    /\ \A c \in alert_cutout_collection : \E d \in alert_collection : d._id = c._id
    /\ \A a \in alert_aux_collection : \E d \in alert_collection : d.objectId = a._id

\* C28, witness: alerts 1 and 2 of object 10 are stored with their cutouts
\* and the auxiliary document of the object, and alert 3 of object 20 is
\* absent from all three collections
C28_Witness ==
    /\ {d._id : d \in alert_collection} = {1, 2}
    /\ {c._id : c \in alert_cutout_collection} = {1, 2}
    /\ {a._id : a \in alert_aux_collection} = {10}
    /\ \A d \in alert_collection : d.objectId = 10

(***************************************************************************)
(* What a successful call leaves behind.                                   *)
(***************************************************************************)
\* C29: once a call on a packet has returned Ok(candid), the primary and
\* the cutout collection hold a document with _id = candid and the
\* auxiliary document of the alert's object exists and has the alert's
\* enriched current candidate among its prv_candidates, in every later
\* state, whatever the other workers do.
C29_OkIsDurable ==
    \A bytes \in succeeded :
        /\ HasId(alert_collection, AlertOf(bytes).candid)
        /\ HasId(alert_cutout_collection, AlertOf(bytes).candid)
        /\ HasId(alert_aux_collection, Unwrap(AlertOf(bytes).candidate.objectId))
        /\ EnrichSource(AlertOf(bytes).candidate) \in
              SeqToSet(DocOf(alert_aux_collection,
                             Unwrap(AlertOf(bytes).candidate.objectId)).prv_candidates)

\* C29, witness: alert 1 returned Ok, then alert 2 of the same object was
\* merged into the auxiliary document by another call that returned Ok
C29_Witness ==
    /\ succeeded = {A1, A2}
    /\ \E w \in Workers :
          /\ call[w].bytes = A2
          /\ call[w].branch = "update"
          /\ call[w].result = [kind |-> "Ok", val |-> 2]
    /\ \E w \in Workers :
          /\ call[w].bytes = A1
          /\ call[w].branch = "insert"
          /\ call[w].result = [kind |-> "Ok", val |-> 1]
    /\ EnrichSource(AlertOf(A1).candidate) \in
          SeqToSet(DocOf(alert_aux_collection, 10).prv_candidates)
    /\ EnrichSource(AlertOf(A2).candidate) \in
          SeqToSet(DocOf(alert_aux_collection, 10).prv_candidates)

(***************************************************************************)
(* Absent optional fields.                                                 *)
(***************************************************************************)
\* C30: a call that cannot complete because its decoded packet lacks an
\* optional field the call needs has written no document to any collection.
C30_ValidateBeforeWrite ==
    \A w \in Workers :
        (call[w].decoded = "Ok" /\ call[w].result.kind = "Panic") => call[w].wrote = {}

\* C30, what the code keeps: only the fields of the current detection are
\* read before the first write
C30_CandidateCheckedFirst ==
    \A w \in Workers :
        (/\ call[w].decoded = "Ok"
         /\ \/ ~IsSome(AlertOf(call[w].bytes).candidate.objectId)
            \/ ~CanAddMagData(AlertOf(call[w].bytes).candidate))
        => /\ call[w].result.kind = "Panic"
           /\ call[w].wrote = {}
           /\ call[w].ops = <<>>

====
